---- MODULE Spec2Model ----
(***************************************************************************)
(* ThumbnailGo: the generateThumbnail and deleteThumbnail request handlers *)
(* of the five controller variants of the repository, the record store,    *)
(* the transient image directory, the image providers and the upload       *)
(* provider they call.                                                     *)
(*                                                                         *)
(* A generate request is a process that advances from one suspension point *)
(* (await) of its handler to the next; each step performs the awaited call *)
(* and the synchronous code that follows it.  A delete request has a       *)
(* single await and is one step.                                           *)
(***************************************************************************)
EXTENDS Integers, Sequences, FiniteSets, TLC

VARIABLES variant, store, files, now, req, trace, del

vars == <<variant, store, files, now, req, trace, del>>

(***************************************************************************)
(* Bounds of the model.                                                    *)
(***************************************************************************)
NumRequests == 1
MaxTime == 2

Requests == DOMAIN req
Timestamps == 1..MaxTime

(***************************************************************************)
(* The controller variants: one of them is deployed.                       *)
(***************************************************************************)
Variants == {"part_000", "ThumbnailController", "part_001a", "part_001b", "part_002"}

Undefined == "undefined"

(***************************************************************************)
(* Sessions: no session object, a session without userId, two users.       *)
(***************************************************************************)
Users == {"u1", "u2"}
Sessions == {"nosession", "anonymous"} \cup Users

\* const { userId } = req.session || {};
userIdOf(session) == IF session \in Users THEN session ELSE Undefined

AlwaysAuthenticated(userId) == TRUE

\* if (!userId) return res.status(401)...
Authenticated(userId) == userId # Undefined

(***************************************************************************)
(* Lookup tables.                                                          *)
(***************************************************************************)
stylePromptKeys ==
  {"Bold & Graphic", "Tech/Futuristic", "Minimalist", "Photorealistic", "Illustrated"}

colorSchemeKeys ==
  {"vibrant", "sunset", "forest", "neon", "purple", "monochrome", "ocean", "pastel"}

\* String.prototype.trim on the request values of the model
trim(s) ==
  CASE s = "   " -> ""
    [] s = " 1:1 " -> "1:1"
    [] s = " Minimalist " -> "Minimalist"
    [] s = " pastel " -> "pastel"
    [] OTHER -> s

\* typeof v === "string" && v.trim() ? v.trim() : dflt
clean(v, dflt) == IF v # Undefined /\ trim(v) # "" THEN trim(v) ELSE dflt

cleanStyle(body) == clean(body.style, "Bold & Graphic")
cleanAspect(body) == clean(body.aspect_ratio, "16:9")
cleanColor(body) == clean(body.color_scheme, "vibrant")

\* v || ""
orEmpty(v) == IF v = Undefined THEN "" ELSE v

\* text_overlay ?? true   (part_002: text_overlay || true)
textOverlay(v, b) ==
  IF v = "part_002" THEN TRUE
  ELSE IF b = Undefined THEN TRUE ELSE b = "true"

\* aspectMap[cleanAspect] || default
aspectMap(v, aspect) ==
  CASE aspect = "16:9" -> <<1024, 576>>
    [] aspect = "1:1" -> <<1024, 1024>>
    [] aspect = "9:16" -> <<576, 1024>>
    [] aspect = "4:3" /\ v = "part_000" -> <<1024, 768>>
    [] OTHER -> <<1024, 576>>

(***************************************************************************)
(* The prompt: the template literals of BUILD PROMPT, as the sequence of   *)
(* their literal and interpolated segments.  An entry of a lookup table is *)
(* written table[key].                                                     *)
(***************************************************************************)
\* a value is truthy: if (title), if (user_prompt)
truthy(v) == v # Undefined /\ v # ""

\* stylePrompts[cleanStyle] || "bold thumbnail"
stylePhrase(v, style) ==
  IF style \in stylePromptKeys THEN "stylePrompts[" \o style \o "]"
  ELSE IF v \in {"ThumbnailController", "part_002"} THEN "bold graphic thumbnail"
  ELSE "bold thumbnail"

NoTitleClause(v, title) == <<>>

\* part_000: if (title) prompt += ` for "${title}"`; the others always
\* interpolate title
titleClause(v, title) ==
  IF v = "part_000"
  THEN IF truthy(title) THEN <<" for ", "\"", title, "\"">> ELSE <<>>
  ELSE IF v = "part_001b" THEN <<" for ", "\"", title, "\"">>
  ELSE <<" for: ", "\"", title, "\"">>

\* if (colorSchemeDescriptions[cleanColor]) prompt += ...
colorClause(v, color) ==
  IF color \notin colorSchemeKeys THEN <<>>
  ELSE LET d == "colorSchemeDescriptions[" \o color \o "]"
       IN CASE v = "part_000" -> <<", ", d>>
            [] v = "part_001a" -> <<" Use ", d, ".">>
            [] v = "part_001b" -> <<" with ", d>>
            [] OTHER -> <<" Use a ", d, " color scheme.">>

\* if (user_prompt) prompt += ...
userPromptClause(v, p) ==
  IF ~truthy(p) THEN <<>>
  ELSE CASE v \in {"part_000", "part_001b"} -> <<". ", p>>
         [] v = "part_001a" -> <<" ", p, ".">>
         [] OTHER -> <<" Additional details: ", p, ".">>

\* the fixed suffix
suffixClause(v, aspect) ==
  CASE v = "part_000" -> <<". YouTube thumbnail, high CTR, 16:9 composition">>
    [] v = "part_001b" -> <<". YouTube thumbnail, high CTR">>
    [] v = "part_001a" -> <<" Aspect ratio ", aspect, ", high CTR, YouTube thumbnail.">>
    [] v = "ThumbnailController" ->
         <<" Thumbnail ", aspect, ", visually stunning, high CTR.">>
    [] OTHER ->
         <<" Thumbnail ", aspect, ", visually stunning, designed to maximize click-through rate. Bold, professional, impossible to ignore.">>

\* let prompt = `Create a ${...}`; prompt += ...
buildPrompt(v, body) ==
  <<"Create a ", stylePhrase(v, cleanStyle(body))>>
    \o titleClause(v, body.title)
    \o colorClause(v, cleanColor(body))
    \o userPromptClause(v, body.prompt)
    \o suffixClause(v, cleanAspect(body))

(***************************************************************************)
(* Request bodies.                                                         *)
(***************************************************************************)
Bodies ==
  { [title |-> "Test", prompt |-> "a cat", style |-> "Minimalist",
     aspect_ratio |-> "1:1", color_scheme |-> "pastel", text_overlay |-> "false"],
    [title |-> Undefined, prompt |-> Undefined, style |-> Undefined,
     aspect_ratio |-> Undefined, color_scheme |-> Undefined,
     text_overlay |-> Undefined] }

\* every value a field of the body takes in the composition checks: absent,
\* blank, padded, a key of the table, a string that is no key of the table
Titles == {Undefined, "", "Test"}
Prompts == {Undefined, "a cat"}
Styles == {Undefined, "   ", " Minimalist ", "Neon Noir"} \cup stylePromptKeys
Aspects == {Undefined, "   ", " 1:1 ", "16:9", "1:1", "9:16", "4:3", "21:9"}
Colors == {Undefined, " pastel ", "sepia"} \cup colorSchemeKeys
TextOverlays == {Undefined, "false"}

ComposeBodies ==
  [title : Titles, prompt : Prompts, style : Styles, aspect_ratio : Aspects,
   color_scheme : Colors, text_overlay : TextOverlays]

\* req.body = {}
NoBody ==
  [title |-> Undefined, prompt |-> Undefined, style |-> Undefined,
   aspect_ratio |-> Undefined, color_scheme |-> Undefined,
   text_overlay |-> Undefined]

(***************************************************************************)
(* Records of the store.  A record's _id is the number of the request that *)
(* created it; _id 0 is no record.                                         *)
(***************************************************************************)
NoRecord ==
  [_id |-> 0, userId |-> Undefined, title |-> Undefined,
   prompt_used |-> Undefined, style |-> Undefined, aspect_ratio |-> Undefined,
   color_scheme |-> Undefined, text_overlay |-> FALSE, isGenerating |-> FALSE,
   image_url |-> Undefined, error |-> Undefined]

thumbnailDataNotGenerating(v, id, userId, body) ==
  [_id |-> id, userId |-> userId, title |-> orEmpty(body.title),
   prompt_used |-> orEmpty(body.prompt), style |-> cleanStyle(body),
   aspect_ratio |-> cleanAspect(body), color_scheme |-> cleanColor(body),
   text_overlay |-> textOverlay(v, body.text_overlay), isGenerating |-> FALSE,
   image_url |-> Undefined, error |-> Undefined]

\* the object passed to Thumbnail.create
thumbnailData(v, id, userId, body) ==
  [_id |-> id, userId |-> userId, title |-> orEmpty(body.title),
   prompt_used |-> orEmpty(body.prompt), style |-> cleanStyle(body),
   aspect_ratio |-> cleanAspect(body), color_scheme |-> cleanColor(body),
   text_overlay |-> textOverlay(v, body.text_overlay), isGenerating |-> TRUE,
   image_url |-> Undefined, error |-> Undefined]

\* the ids a delete request may name: 0 is the id of no record
Ids == {0} \cup DOMAIN store

(***************************************************************************)
(* Image bytes: <<r, i>> is the payload provider i returned to request r;  *)
(* <<>> is no bytes.                                                       *)
(***************************************************************************)
NoBytes == <<>>

\* the services array of generateImageWithFallbacks
services == <<"pollinations", "picsum", "unsplash", "placeholder">>

OneAttemptPerService == Len(services)

\* the retry loops of the other variants: for (i = 0; i < 3; i++)
MaxAttempts == 3

RECURSIVE pow2(_)
pow2(n) == IF n = 0 THEN 1 ELSE 2 * pow2(n - 1)

LinearBackoff(i) == 1000 * i

\* 1000 * Math.pow(2, i - 1)
Backoff(i) == 1000 * pow2(i - 1)

SkipIndex(i) == i + 2

\* for (let i = 0; ...; i++)
nextIndex(i) == i + 1

NeverLast(i) == FALSE

\* if (i === services.length - 1) throw new Error("All image services failed")
lastService(i) == i = Len(services) - 1

(***************************************************************************)
(* Exception messages.  "" is an exception without a message.              *)
(***************************************************************************)
CreateErrors == {"create failed"}
FetchErrors == {"Request failed with status code 500"}
WriteErrors == {"EACCES"}
UploadErrors == {"", "upload failed"}
SaveErrors == {"save failed"}
UnlinkErrors == {"EPERM"}
NoDocument == "No document found"
NoFile == "ENOENT"

(***************************************************************************)
(* The local state of a generate request.                                  *)
(***************************************************************************)
NoResponse == [message |-> Undefined, thumbnail |-> NoRecord, error |-> Undefined]

IdleRequest ==
  [pc |-> "idle", session |-> "nosession", thumbnail |-> NoRecord,
   input |-> NoBody, prompt |-> <<>>, dims |-> <<0, 0>>, i |-> 0, imageBuffer |-> NoBytes, filepath |-> 0,
   error |-> Undefined, status |-> 0, body |-> NoResponse]

\* the last delete request and its answer: the session and id it came with,
\* the owner of the record with that id before it (Undefined when there was
\* none), whether the record was removed, and the status answered
NoDelete ==
  [session |-> "nosession", id |-> 0, owner |-> Undefined, removed |-> FALSE,
   status |-> 0]

Event(op, arg, ok) == [op |-> op, arg |-> arg, ok |-> ok]

Init ==
  /\ variant \in Variants
  /\ store = [id \in 1..NumRequests |-> NoRecord]
  /\ files = [t \in Timestamps |-> NoBytes]
  /\ now = 1
  /\ req = [r \in 1..NumRequests |-> IdleRequest]
  /\ trace = [r \in 1..NumRequests |-> <<>>]
  /\ del = NoDelete

(***************************************************************************)
(* The upload provider's result for the upload made by request r.          *)
(***************************************************************************)
uploadResult(r) ==
  [url |-> "http://res.cloudinary.com/" \o ToString(r),
   secure_url |-> "https://res.cloudinary.com/" \o ToString(r)]

imageUrlPlain(v, result) == result.url

\* thumbnail.image_url = uploadResult.secure_url   (part_002: uploadResult.url)
imageUrlOf(v, result) == IF v = "part_002" THEN result.url ELSE result.secure_url

successMessage(v) ==
  IF v = "part_000" THEN "Thumbnail generated successfully" ELSE "Thumbnail Generated"

\* res.status(status).json(body)
respond(q, status, body) == [q EXCEPT !.pc = "done", !.status = status, !.body = body]

alwaysDefault(msg) == "Generation failed"

\* thumbnail.error = error.message || "Generation failed"
errorOrDefault(msg) == IF msg # "" THEN msg ELSE "Generation failed"

(***************************************************************************)
(* The catch block of generateThumbnail, entered with an exception whose   *)
(* message is msg.  part_000 marks the record failed and awaits the        *)
(* recovery save when a record exists; the other variants only answer.     *)
(***************************************************************************)
catchAlwaysRecovers(v, q, msg) == [q EXCEPT !.error = msg, !.pc = "recover"]

catch(v, q, msg) ==
  IF v = "part_000"
  THEN IF q.thumbnail._id # 0
       THEN [q EXCEPT !.thumbnail.isGenerating = FALSE,
                      !.thumbnail.error = errorOrDefault(msg),
                      !.error = msg, !.pc = "recover"]
       ELSE respond([q EXCEPT !.error = msg], 500,
                    [message |-> "Image generation failed but fallback used",
                     thumbnail |-> q.thumbnail, error |-> msg])
  ELSE respond([q EXCEPT !.error = msg], 500,
               [message |-> msg, thumbnail |-> NoRecord, error |-> Undefined])

\* the events a catch adds to the trace: the response when it answers at once
catchEvents(v, q) ==
  IF v = "part_000" /\ q.thumbnail._id # 0 THEN <<>>
  ELSE <<Event("respond", 500, TRUE)>>

(***************************************************************************)
(* generateThumbnail up to its first await and the create it awaits:       *)
(* the identity check, the safe values, Thumbnail.create; then the prompt  *)
(* and dimensions and the first provider call is issued.                   *)
(***************************************************************************)
generate(r, bodies) ==
  /\ req[r].pc = "idle"
  /\ \E session \in Sessions, body \in bodies :
       LET userId == userIdOf(session)
           q == [req[r] EXCEPT !.session = session, !.input = body]
           data == thumbnailData(variant, r, userId, body)
       IN IF ~Authenticated(userId)
          THEN /\ req' = [req EXCEPT ![r] =
                     respond(q, 401, [message |-> "User not authenticated",
                                      thumbnail |-> NoRecord, error |-> Undefined])]
               /\ trace' = [trace EXCEPT ![r] = <<Event("respond", 401, TRUE)>>]
               /\ store' = store
          ELSE \/ /\ store' = [store EXCEPT ![r] = data]
                  /\ req' = [req EXCEPT ![r] =
                        [q EXCEPT !.thumbnail = data,
                                  !.prompt = buildPrompt(variant, body),
                                  !.dims = aspectMap(variant, data.aspect_ratio),
                                  !.i = 0, !.pc = "fetch"]]
                  /\ trace' = [trace EXCEPT ![r] = <<Event("create", r, TRUE)>>]
               \/ \E e \in CreateErrors :
                    /\ store' = store
                    /\ req' = [req EXCEPT ![r] = catch(variant, q, e)]
                    /\ trace' = [trace EXCEPT ![r] =
                          <<Event("create", r, FALSE)>> \o catchEvents(variant, q)]
  /\ UNCHANGED <<variant, files, now, del>>

generateThumbnail(r) == generate(r, Bodies)

(***************************************************************************)
(* The synchronous code between the image payload and the upload call:     *)
(* the transient file is named after Date.now() and written, and the       *)
(* upload is issued.                                                       *)
(***************************************************************************)
stageAndUpload(r, q, buf, events) ==
  \E t \in now..MaxTime :
    /\ now' = t
    /\ \/ /\ files' = [files EXCEPT ![t] = buf]
          /\ req' = [req EXCEPT ![r] =
                [q EXCEPT !.imageBuffer = buf, !.filepath = t, !.pc = "upload"]]
          /\ trace' = [trace EXCEPT ![r] = @ \o events \o <<Event("write", t, TRUE)>>]
       \/ \E e \in WriteErrors :
             LET q1 == [q EXCEPT !.imageBuffer = buf, !.filepath = t] IN
             /\ files' = files
             /\ req' = [req EXCEPT ![r] = catch(variant, q1, e)]
             /\ trace' = [trace EXCEPT ![r] =
                   @ \o events \o <<Event("write", t, FALSE)>> \o catchEvents(variant, q1)]

\* an exception reaches the catch block
throw(r, q, msg, events) ==
  /\ req' = [req EXCEPT ![r] = catch(variant, q, msg)]
  /\ trace' = [trace EXCEPT ![r] = @ \o events \o catchEvents(variant, q)]
  /\ UNCHANGED <<files, now>>

(***************************************************************************)
(* generateImageWithFallbacks (part_000): the call of services[i] returns. *)
(* On success the payload is returned at once; on failure the next index   *)
(* is tried after its backoff, and the last failure is the terminal error. *)
(***************************************************************************)
generateImageWithFallbacks(r) ==
  /\ variant = "part_000"
  /\ req[r].pc = "fetch"
  /\ LET q == req[r]
         i == q.i
     IN \/ stageAndUpload(r, q, <<r, i>>, <<Event("fetch", i, TRUE)>>)
        \/ \E e \in FetchErrors :
             IF lastService(i)
             THEN throw(r, q, "All image services failed", <<Event("fetch", i, FALSE)>>)
             ELSE /\ req' = [req EXCEPT ![r] = [q EXCEPT !.i = nextIndex(i), !.pc = "sleep"]]
                  /\ trace' = [trace EXCEPT ![r] = Append(@, Event("fetch", i, FALSE))]
                  /\ UNCHANGED <<files, now>>
  /\ UNCHANGED <<variant, store, del>>

(***************************************************************************)
(* The backoff timer before the attempt at index i > 0 fires, and          *)
(* services[i] is called.                                                  *)
(***************************************************************************)
backoffNeverFires(r) ==
  /\ variant = "part_000"
  /\ req[r].pc = "sleep"
  /\ UNCHANGED vars

backoff(r) ==
  /\ variant = "part_000"
  /\ req[r].pc = "sleep"
  /\ req' = [req EXCEPT ![r].pc = "fetch"]
  /\ trace' = [trace EXCEPT ![r] = Append(@, Event("sleep", Backoff(req[r].i), TRUE))]
  /\ UNCHANGED <<variant, store, files, now, del>>

(***************************************************************************)
(* The retry loop of ThumbnailController.ts and part_001: axios.get        *)
(* returns.  The third failure is rethrown (ThumbnailController, part_001a)*)
(* or replaced by a fallback fetch (part_001b).  part_002 fetches once.    *)
(***************************************************************************)
fetchAttempt(r) ==
  /\ variant # "part_000"
  /\ req[r].pc = "fetch"
  /\ LET q == req[r]
         i == q.i
     IN \/ stageAndUpload(r, q, <<r, i>>, <<Event("fetch", i, TRUE)>>)
        \/ \E e \in FetchErrors :
             IF variant = "part_002"
             THEN throw(r, q, e, <<Event("fetch", i, FALSE)>>)
             ELSE IF i < MaxAttempts - 1
             THEN /\ req' = [req EXCEPT ![r] = [q EXCEPT !.i = i + 1]]
                  /\ trace' = [trace EXCEPT ![r] = Append(@, Event("fetch", i, FALSE))]
                  /\ UNCHANGED <<files, now>>
             ELSE IF variant = "part_001b"
             THEN /\ req' = [req EXCEPT ![r] = [q EXCEPT !.pc = "fallback"]]
                  /\ trace' = [trace EXCEPT ![r] = Append(@, Event("fetch", i, FALSE))]
                  /\ UNCHANGED <<files, now>>
             ELSE throw(r, q, e, <<Event("fetch", i, FALSE)>>)
  /\ UNCHANGED <<variant, store, del>>

(***************************************************************************)
(* part_001b: the fallback fetch made inside the catch of the last retry   *)
(* returns.                                                                *)
(***************************************************************************)
fallbackFetch(r) ==
  /\ variant = "part_001b"
  /\ req[r].pc = "fallback"
  /\ LET q == [req[r] EXCEPT !.i = MaxAttempts]
     IN \/ stageAndUpload(r, q, <<r, MaxAttempts>>, <<Event("fetch", MaxAttempts, TRUE)>>)
        \/ \E e \in FetchErrors :
             throw(r, q, e, <<Event("fetch", MaxAttempts, FALSE)>>)
  /\ UNCHANGED <<variant, store, del>>

(***************************************************************************)
(* cloudinary.uploader.upload returns: it read the transient file, and on  *)
(* success the handler sets image_url and isGenerating and awaits the save.*)
(***************************************************************************)
upload(r) ==
  /\ req[r].pc = "upload"
  /\ LET q == req[r]
         bytes == files[q.filepath]
     IN \/ /\ bytes # NoBytes
           /\ req' = [req EXCEPT ![r] =
                 [q EXCEPT !.thumbnail.image_url = imageUrlOf(variant, uploadResult(r)),
                           !.thumbnail.isGenerating = FALSE,
                           !.pc = "save"]]
           /\ trace' = [trace EXCEPT ![r] = Append(@, Event("upload", bytes, TRUE))]
           /\ UNCHANGED <<files, now>>
        \/ \E e \in UploadErrors :
             throw(r, q, e, <<Event("upload", bytes, FALSE)>>)
  /\ UNCHANGED <<variant, store, del>>

(***************************************************************************)
(* thumbnail.save() returns; then the transient file is unlinked and the   *)
(* request is answered.  A save of a record that is no longer in the store *)
(* fails.                                                                  *)
(***************************************************************************)
save(r) ==
  /\ req[r].pc = "save"
  /\ LET q == req[r]
     IN \/ /\ store[r]._id # 0
           /\ store' = [store EXCEPT ![r] = q.thumbnail]
           /\ \/ /\ files[q.filepath] # NoBytes
                 /\ files' = [files EXCEPT ![q.filepath] = NoBytes]
                 /\ req' = [req EXCEPT ![r] =
                       respond(q, 200, [message |-> successMessage(variant),
                                        thumbnail |-> q.thumbnail,
                                        error |-> Undefined])]
                 /\ trace' = [trace EXCEPT ![r] =
                       @ \o <<Event("save", r, TRUE), Event("unlink", q.filepath, TRUE),
                              Event("respond", 200, TRUE)>>]
                 /\ now' = now
              \/ \E e \in (IF files[q.filepath] = NoBytes THEN {NoFile} ELSE UnlinkErrors) :
                   throw(r, q, e, <<Event("save", r, TRUE),
                                    Event("unlink", q.filepath, FALSE)>>)
        \/ \E e \in (IF store[r]._id = 0 THEN {NoDocument} ELSE SaveErrors) :
             /\ store' = store
             /\ throw(r, q, e, <<Event("save", r, FALSE)>>)
  /\ UNCHANGED <<variant, del>>

(***************************************************************************)
(* part_000: the recovery save of the catch block returns; its failure is  *)
(* swallowed, and the request is answered 500.                             *)
(***************************************************************************)
recoverySaveRetried(r) ==
  /\ variant = "part_000"
  /\ req[r].pc = "recover"
  /\ \/ /\ store[r]._id # 0
        /\ store' = [store EXCEPT ![r] = req[r].thumbnail]
        /\ req' = [req EXCEPT ![r] =
              respond(req[r], 500,
                      [message |-> "Image generation failed but fallback used",
                       thumbnail |-> req[r].thumbnail, error |-> req[r].error])]
        /\ trace' = [trace EXCEPT ![r] =
              @ \o <<Event("recover", r, TRUE), Event("respond", 500, TRUE)>>]
     \/ /\ Len(trace[r]) < 12
        /\ store' = store
        /\ req' = req
        /\ trace' = [trace EXCEPT ![r] = Append(@, Event("recover", r, FALSE))]
  /\ UNCHANGED <<variant, files, now, del>>

recoverySave(r) ==
  /\ variant = "part_000"
  /\ req[r].pc = "recover"
  /\ LET q == req[r]
         answered == respond(q, 500,
                       [message |-> "Image generation failed but fallback used",
                        thumbnail |-> q.thumbnail, error |-> q.error])
     IN /\ req' = [req EXCEPT ![r] = answered]
        /\ \/ /\ store[r]._id # 0
              /\ store' = [store EXCEPT ![r] = q.thumbnail]
              /\ trace' = [trace EXCEPT ![r] =
                    @ \o <<Event("recover", r, TRUE), Event("respond", 500, TRUE)>>]
           \/ /\ store' = store
              /\ trace' = [trace EXCEPT ![r] =
                    @ \o <<Event("recover", r, FALSE), Event("respond", 500, TRUE)>>]
  /\ UNCHANGED <<variant, files, now, del>>

(***************************************************************************)
(* deleteThumbnail.  part_000 and part_001 delete the record with the      *)
(* given id and the session's userId; part_002 deletes by id.  part_000    *)
(* answers 404 when nothing was deleted, the others answer 200.            *)
(***************************************************************************)
\* the record a delete with this filter removes, NoRecord if none
findAndDelete(v, id, userId) ==
  IF id \in DOMAIN store /\ store[id]._id # 0
     /\ (v = "part_002" \/ store[id].userId = userId)
  THEN store[id] ELSE NoRecord

deleteStatusAlways200(v, result) == 200

\* part_000: if (!result) return res.status(404)
deleteStatus(v, result) == IF v = "part_000" /\ result._id = 0 THEN 404 ELSE 200

deleteThumbnail ==
  /\ variant \in {"part_000", "part_001a", "part_001b", "part_002"}
  /\ \E session \in Sessions, id \in Ids :
       LET owner == IF id \in DOMAIN store THEN store[id].userId ELSE Undefined
           result == findAndDelete(variant, id, userIdOf(session))
       IN \/ /\ ~(variant = "part_002" /\ session = "nosession")
             /\ store' = IF result._id # 0 THEN [store EXCEPT ![id] = NoRecord] ELSE store
             /\ del' = [session |-> session, id |-> id, owner |-> owner,
                        removed |-> result._id # 0,
                        status |-> deleteStatus(variant, result)]
          \/ /\ store' = store
             /\ del' = [session |-> session, id |-> id, owner |-> owner,
                        removed |-> FALSE, status |-> 500]
  /\ UNCHANGED <<variant, files, now, req, trace>>

\* generate requests arrive one at a time
oneAtATime(r) == \A o \in Requests \ {r} : req[o].pc \in {"idle", "done"}

Next ==
  \/ \E r \in Requests : oneAtATime(r) /\ generateThumbnail(r)
  \/ \E r \in Requests : generateImageWithFallbacks(r)
  \/ \E r \in Requests : backoff(r)
  \/ \E r \in Requests : fetchAttempt(r)
  \/ \E r \in Requests : fallbackFetch(r)
  \/ \E r \in Requests : upload(r)
  \/ \E r \in Requests : save(r)
  \/ \E r \in Requests : recoverySave(r)
  \/ deleteThumbnail

Spec == Init /\ [][Next]_vars

\* generate requests overlap at their suspension points
NextConcurrent ==
  \/ \E r \in Requests : generateThumbnail(r)
  \/ \E r \in Requests : generateImageWithFallbacks(r)
  \/ \E r \in Requests : backoff(r)
  \/ \E r \in Requests : fetchAttempt(r)
  \/ \E r \in Requests : fallbackFetch(r)
  \/ \E r \in Requests : upload(r)
  \/ \E r \in Requests : save(r)
  \/ \E r \in Requests : recoverySave(r)
  \/ deleteThumbnail

SpecConcurrent == Init /\ [][NextConcurrent]_vars

(***************************************************************************)
(* Every external call of a request that has started eventually returns or *)
(* fails: each continuation of the fallback variant is taken once it is    *)
(* enabled.  The arrival of requests is not forced.                        *)
(***************************************************************************)
CallsReturn ==
  \A r \in 1..NumRequests :
    /\ WF_vars(generateImageWithFallbacks(r))
    /\ WF_vars(backoff(r))
    /\ WF_vars(upload(r))
    /\ WF_vars(save(r))
    /\ WF_vars(recoverySave(r))

SpecFair == Init /\ [][Next]_vars /\ CallsReturn

(***************************************************************************)
(* Two generate requests in flight at once: each runs from suspension      *)
(* point to suspension point, in any interleaving, and Date.now() may give *)
(* both the same millisecond.                                              *)
(***************************************************************************)
NumRacing == 2

InitRace ==
  /\ variant \in Variants
  /\ store = [id \in 1..NumRacing |-> NoRecord]
  /\ files = [t \in Timestamps |-> NoBytes]
  /\ now = 1
  /\ req = [r \in 1..NumRacing |-> IdleRequest]
  /\ trace = [r \in 1..NumRacing |-> <<>>]
  /\ del = NoDelete

NextRace ==
  \/ \E r \in Requests : generate(r, {NoBody})
  \/ \E r \in Requests : generateImageWithFallbacks(r)
  \/ \E r \in Requests : backoff(r)
  \/ \E r \in Requests : fetchAttempt(r)
  \/ \E r \in Requests : fallbackFetch(r)
  \/ \E r \in Requests : upload(r)
  \/ \E r \in Requests : save(r)
  \/ \E r \in Requests : recoverySave(r)

SpecRace == InitRace /\ [][NextRace]_vars

(***************************************************************************)
(* Composition: one request, its body drawn from ComposeBodies, runs the   *)
(* handler up to the first provider call: safe values, create, prompt,     *)
(* dimensions.                                                             *)
(***************************************************************************)
InitCompose ==
  /\ variant \in Variants
  /\ store = <<NoRecord>>
  /\ files = [t \in Timestamps |-> NoBytes]
  /\ now = 1
  /\ req = <<IdleRequest>>
  /\ trace = << <<>> >>
  /\ del = NoDelete

NextCompose == \E r \in Requests : generate(r, ComposeBodies)

SpecCompose == InitCompose /\ [][NextCompose]_vars

(***************************************************************************)
(* Deletion: the store holds the records earlier generate requests left,   *)
(* pending or completed, and delete requests arrive.                       *)
(***************************************************************************)
NumRecords == 2

\* the records generate request id can have left in the store
StoredRecords(v, id) ==
  {NoRecord}
    \cup {thumbnailData(v, id, u, b) : u \in Users, b \in Bodies}
    \cup {[thumbnailData(v, id, u, b) EXCEPT
             !.isGenerating = FALSE,
             !.image_url = imageUrlOf(v, uploadResult(id))] :
           u \in Users, b \in Bodies}

InitDelete ==
  /\ variant \in Variants
  /\ store \in {s \in [1..NumRecords ->
                         UNION {StoredRecords(variant, id) : id \in 1..NumRecords}] :
                 \A id \in 1..NumRecords : s[id] \in StoredRecords(variant, id)}
  /\ files = [t \in Timestamps |-> NoBytes]
  /\ now = 1
  /\ req = <<>>
  /\ trace = <<>>
  /\ del = NoDelete

NextDelete == deleteThumbnail

SpecDelete == InitDelete /\ [][NextDelete]_vars

(***************************************************************************)
(* Properties.                                                             *)
(***************************************************************************)
IsFetch(e) == e.op = "fetch"
IsSleep(e) == e.op = "sleep"

\* the events of request r with operation op
Has(r, op) == \E k \in 1..Len(trace[r]) : trace[r][k].op = op
HasOk(r, op) == \E k \in 1..Len(trace[r]) : trace[r][k].op = op /\ trace[r][k].ok
HasFailed(r, op) == \E k \in 1..Len(trace[r]) : trace[r][k].op = op /\ ~trace[r][k].ok

RECURSIVE SumArgs(_)
SumArgs(seq) == IF seq = <<>> THEN 0 ELSE Head(seq).arg + SumArgs(Tail(seq))

\* C1: a generate request whose session carries no userId is answered 401,
\* and for it no record is created, no provider is called, no transient
\* file is written and nothing is uploaded or saved (every variant).
C1_Unauthenticated401 ==
  \A r \in Requests :
    (req[r].pc # "idle" /\ req[r].session \notin Users) =>
      /\ req[r].pc = "done"
      /\ req[r].status = 401
      /\ store[r] = NoRecord
      /\ \A k \in 1..Len(trace[r]) : trace[r][k].op = "respond"

C1_Witness ==
  \E r \in Requests :
    req[r].pc = "done" /\ req[r].session = "anonymous" /\ req[r].status = 401

\* C2: in part_000, once the handler has answered, the stored record of the
\* request has isGenerating = false and exactly one of image_url and error.
C2_ExactlyOneDisposition ==
  \A r \in Requests :
    (variant = "part_000" /\ req[r].pc = "done" /\ store[r]._id # 0) =>
      /\ ~store[r].isGenerating
      /\ (store[r].image_url # Undefined) # (store[r].error # Undefined)

\* C3: in ThumbnailController.ts, when all fetch attempts fail or the upload
\* throws, the request is answered 500 and the stored record is marked
\* failed (isGenerating = false).
C3_FailureMarksRecord ==
  \A r \in Requests :
    (variant = "ThumbnailController" /\ req[r].pc = "done"
       /\ (HasFailed(r, "upload")
            \/ \E k \in 1..Len(trace[r]) :
                 /\ trace[r][k].op = "fetch"
                 /\ trace[r][k].arg = 2
                 /\ ~trace[r][k].ok)) =>
      /\ req[r].status = 500
      /\ ~store[r].isGenerating

\* a request of part_000 answered after an exception that was raised after
\* its record was created
FailedAfterCreate(r) ==
  /\ variant = "part_000"
  /\ req[r].pc = "done"
  /\ req[r].thumbnail._id # 0
  /\ req[r].error # Undefined

\* C4 as stated: such a request is answered 500 with the exception's
\* message and the record, and when the recovery save succeeded the stored
\* record has isGenerating = false and error equal to that message.
C4_ErrorIsMessage ==
  \A r \in Requests :
    FailedAfterCreate(r) =>
      /\ req[r].status = 500
      /\ req[r].body.error = req[r].error
      /\ req[r].body.thumbnail._id = r
      /\ (HasOk(r, "recover") /\ store[r]._id # 0) =>
            /\ ~store[r].isGenerating
            /\ store[r].error = req[r].error

\* C4 amended: the stored error is the exception's message, or
\* "Generation failed" when the exception has no message.
C4_ErrorIsMessageOrDefault ==
  \A r \in Requests :
    FailedAfterCreate(r) =>
      /\ req[r].status = 500
      /\ req[r].body.error = req[r].error
      /\ req[r].body.thumbnail._id = r
      /\ (HasOk(r, "recover") /\ store[r]._id # 0) =>
            /\ ~store[r].isGenerating
            /\ store[r].error =
                 (IF req[r].error = "" THEN "Generation failed" ELSE req[r].error)

C4_Witness ==
  \E r \in Requests :
    /\ FailedAfterCreate(r)
    /\ HasOk(r, "recover")
    /\ req[r].error = "upload failed"
    /\ store[r].error = "upload failed"

\* C5: no provider call and no upload is issued by a request before its
\* record has been created with isGenerating = true (every variant): the
\* first event of a request that called a provider or uploaded is its
\* successful create, and the record is stored with isGenerating = true
\* while the first provider call is pending.
C5_RecordBeforeOutboundCalls ==
  \A r \in Requests :
    /\ (req[r].pc \in {"fetch", "sleep", "fallback", "upload"}
          \/ Has(r, "fetch") \/ Has(r, "upload")) =>
         /\ trace[r][1].op = "create"
         /\ trace[r][1].ok
         /\ \A k \in 2..Len(trace[r]) : trace[r][k].op # "create"
    /\ (req[r].pc = "fetch" /\ Len(trace[r]) = 1 /\ store[r]._id # 0) =>
         store[r].isGenerating

C5_Witness ==
  \E r \in Requests : HasOk(r, "upload") /\ HasFailed(r, "fetch")

\* C6: in generateImageWithFallbacks the providers are attempted in list
\* order from index 0, each at most once; the first success at index k ends
\* the attempts and its payload is the one returned.
C6_ProvidersInOrder ==
  \A r \in Requests :
    variant = "part_000" =>
      LET F == SelectSeq(trace[r], IsFetch)
      IN /\ Len(F) <= 4
         /\ \A j \in 1..Len(F) :
              /\ F[j].arg = j - 1
              /\ F[j].ok => /\ j = Len(F)
                            /\ req[r].imageBuffer = <<r, j - 1>>
                            /\ req[r].pc \notin {"fetch", "sleep"}
              /\ j < Len(F) => ~F[j].ok

C6_Witness ==
  \E r \in Requests :
    /\ variant = "part_000"
    /\ Len(SelectSeq(trace[r], IsFetch)) = 3
    /\ req[r].imageBuffer = <<r, 2>>

\* C7: no delay precedes the attempt at index 0; the delay immediately
\* before the attempt at index i > 0 is 1000, 2000, 4000 ms for i = 1, 2, 3;
\* the total delay before the attempt at index k is 1000, 3000, 7000 ms.
C7_BackoffDelays ==
  \A r \in Requests :
    variant = "part_000" =>
      \A p \in 1..Len(trace[r]) :
        trace[r][p].op = "fetch" =>
          LET i == trace[r][p].arg
              slept == SumArgs(SelectSeq(SubSeq(trace[r], 1, p), IsSleep))
          IN /\ i = 0 => trace[r][p - 1].op = "create" /\ slept = 0
             /\ i > 0 => /\ trace[r][p - 1].op = "sleep"
                         /\ trace[r][p - 1].arg = <<1000, 2000, 4000>>[i]
                         /\ slept = <<1000, 3000, 7000>>[i]

C7_Witness ==
  \E r \in Requests :
    /\ variant = "part_000"
    /\ \E p \in 1..Len(trace[r]) : trace[r][p].op = "fetch" /\ trace[r][p].arg = 3
    /\ SumArgs(SelectSeq(trace[r], IsSleep)) = 7000

\* all four providers of request r have failed
AllServicesFailed(r) ==
  /\ variant = "part_000"
  /\ \E k \in 1..Len(trace[r]) :
       trace[r][k].op = "fetch" /\ trace[r][k].arg = 3 /\ ~trace[r][k].ok

\* C8: when every provider fails, the acquisition ends with the terminal
\* error after the last attempt and returns no bytes; the handler writes no
\* transient file, uploads nothing and answers 500.
C8_AllFailedIsTerminal ==
  \A r \in Requests :
    AllServicesFailed(r) =>
      /\ Len(SelectSeq(trace[r], IsFetch)) = 4
      /\ req[r].error = "All image services failed"
      /\ req[r].imageBuffer = NoBytes
      /\ ~Has(r, "write") /\ ~Has(r, "upload") /\ ~Has(r, "save")
      /\ req[r].pc \in {"recover", "done"}
      /\ req[r].pc = "done" => req[r].status = 500

C8_Witness ==
  \E r \in Requests : AllServicesFailed(r) /\ req[r].pc = "done"

\* C9: in part_000 a request is answered 200 only if the acquisition, the
\* upload and the record save all succeeded, and the stored record then has
\* isGenerating = false and image_url equal to the URL the upload returned.
C9_SuccessOnlyAfterAllSucceeded ==
  \A r \in Requests :
    (variant = "part_000" /\ req[r].status = 200) =>
      /\ HasOk(r, "fetch") /\ HasOk(r, "upload") /\ HasOk(r, "save")
      /\ store[r]._id # 0 =>
           /\ ~store[r].isGenerating
           /\ store[r].image_url = uploadResult(r).secure_url

\* the record is as C9 says in the step that answers 200
C9_AtTheResponse ==
  [][\A r \in Requests :
       (variant = "part_000" /\ req[r].status # 200 /\ req'[r].status = 200) =>
         /\ ~store'[r].isGenerating
         /\ store'[r].image_url = uploadResult(r).secure_url]_vars

C9_Witness ==
  \E r \in Requests :
    variant = "part_000" /\ req[r].status = 200 /\ store[r]._id # 0

\* C10: a delete request for an existing record whose owner differs from the
\* request's session identity is answered 404 and the record is not removed
\* (every variant; requests whose store call failed aside).
C10_NonOwnerDeleteIs404 ==
  (del.status \notin {0, 500} /\ del.owner # Undefined
     /\ del.owner # userIdOf(del.session)) =>
    del.status = 404 /\ ~del.removed

\* a delete request was answered: the step changed the delete log or the store
Deleted == del' # del \/ store' # store

\* the record with the delete's id exists and belongs to the session identity
OwnedMatch ==
  /\ del'.id \in DOMAIN store
  /\ store[del'.id]._id # 0
  /\ store[del'.id].userId = userIdOf(del'.session)

\* C11: in part_000, unless the store call itself fails (500), a delete of an
\* existing record owned by the session identity is answered 200, removes
\* that record and leaves every other record as it was, and the id then
\* looks up nothing; a delete that matches no record is answered 404 and
\* leaves the store as it was.
C11_DeleteRemovesExactlyThatRecord ==
  [][(Deleted /\ variant = "part_000" /\ del'.status # 500) =>
       IF OwnedMatch
       THEN /\ del'.status = 200
            /\ del'.removed
            /\ store'[del'.id] = NoRecord
            /\ \A o \in DOMAIN store \ {del'.id} : store'[o] = store[o]
       ELSE /\ del'.status = 404
            /\ ~del'.removed
            /\ store' = store]_vars

\* an owner's delete removed one of two records, and the other is still there
C11_Witness ==
  /\ variant = "part_000"
  /\ del.status = 200
  /\ del.removed
  /\ del.owner = userIdOf(del.session)
  /\ store[del.id] = NoRecord
  /\ \E o \in DOMAIN store \ {del.id} : store[o]._id = o

\* a delete that matched no record was answered 404 with records in the store
C11_WitnessNoMatch ==
  /\ variant = "part_000"
  /\ del.status = 404
  /\ \A o \in DOMAIN store : store[o]._id = o

\* C12: when a generate request that wrote its transient file is answered,
\* the file no longer exists, whatever upload and save did.
C12_TransientFileGone ==
  \A r \in Requests :
    (req[r].pc = "done" /\ HasOk(r, "write")) => files[req[r].filepath] = NoBytes

\* C13: when acquisition, upload and save succeeded and deleting the
\* transient file failed, the request is still answered 200 and the stored
\* record has isGenerating false, image_url set and no error.
C13_UnlinkFailureNotSurfaced ==
  \A r \in Requests :
    (req[r].pc = "done" /\ HasOk(r, "save") /\ HasFailed(r, "unlink")) =>
      /\ req[r].status = 200
      /\ store[r]._id # 0 =>
           /\ ~store[r].isGenerating
           /\ store[r].image_url # Undefined
           /\ store[r].error = Undefined

\* the events of request r with operation op
EventsOf(r, op) == SelectSeq(trace[r], LAMBDA e : e.op = op)

\* the failed call of request r that reached the catch block: its last
\* failed call other than the recovery save
ThrowingCall(r) ==
  LET failed == SelectSeq(trace[r], LAMBDA e : ~e.ok /\ e.op # "recover")
  IN failed[Len(failed)]

\* the messages the exception of a failed call can carry
MessagesOf(op) ==
  CASE op = "create" -> CreateErrors
    [] op = "fetch" -> {"All image services failed"}
    [] op = "write" -> WriteErrors
    [] op = "upload" -> UploadErrors
    [] op = "save" -> SaveErrors \cup {NoDocument}
    [] op = "unlink" -> UnlinkErrors \cup {NoFile}
    [] OTHER -> {}

\* C17: in part_000, a failed recovery save is swallowed: the request is
\* answered once, with 500 and the message of the original failure, the
\* failed save is the last call before the response, it is not retried,
\* and the stored record carries no error.
C17_RecoveryFailureSwallowed ==
  \A r \in Requests :
    (variant = "part_000" /\ HasFailed(r, "recover")) =>
      LET n == Len(trace[r]) IN
      /\ req[r].pc = "done"
      /\ req[r].status = 500
      /\ Len(EventsOf(r, "respond")) = 1
      /\ Len(EventsOf(r, "recover")) = 1
      /\ trace[r][n - 1] = Event("recover", r, FALSE)
      /\ trace[r][n] = Event("respond", 500, TRUE)
      /\ req[r].body.error = req[r].error
      /\ req[r].body.error \in MessagesOf(ThrowingCall(r).op)
      /\ store[r].error = Undefined

\* a pipeline call failed, the recovery save failed too, and the request is
\* answered
C17_Witness ==
  \E r \in Requests :
    /\ variant = "part_000"
    /\ HasFailed(r, "upload")
    /\ HasFailed(r, "recover")
    /\ req[r].pc = "done"
    /\ store[r].isGenerating

\* C18: in part_000, when creating the record fails, the request is answered
\* 500 and nothing else happens: no provider call, no file write, no upload,
\* no recovery save, no record.
C18_CreateFailureIsTerminal ==
  \A r \in Requests :
    (variant = "part_000" /\ HasFailed(r, "create")) =>
      /\ trace[r] = <<Event("create", r, FALSE), Event("respond", 500, TRUE)>>
      /\ req[r].pc = "done"
      /\ req[r].status = 500
      /\ store[r] = NoRecord
      /\ req[r].imageBuffer = NoBytes

\* a create failed and the request is answered
C18_Witness ==
  \E r \in Requests :
    /\ variant = "part_000"
    /\ HasFailed(r, "create")
    /\ req[r].status = 500

\* C19: in ThumbnailController.ts the provider is fetched at most 3 times,
\* attempts 0, 1, 2 in order, and only the last fetch of a request can have
\* succeeded; a file write or an upload is preceded by a successful fetch
\* and carries that fetch's payload; a failed third fetch ends the request
\* with 500 and its error.
C19_AtMostThreeFetches ==
  \A r \in Requests :
    variant = "ThumbnailController" =>
      LET fetches == EventsOf(r, "fetch")
          n == Len(fetches)
      IN /\ n <= 3
         /\ \A k \in 1..n : fetches[k].arg = k - 1 /\ (fetches[k].ok => k = n)
         /\ (Has(r, "write") \/ Has(r, "upload")) =>
              /\ n > 0 /\ fetches[n].ok
              /\ req[r].imageBuffer = <<r, fetches[n].arg>>
              /\ req[r].imageBuffer # NoBytes
         /\ \A k \in 1..Len(trace[r]) :
              (trace[r][k].op = "upload" /\ trace[r][k].ok) =>
                 trace[r][k].arg = req[r].imageBuffer
         /\ (n = 3 /\ ~fetches[3].ok) =>
              /\ req[r].pc = "done"
              /\ req[r].status = 500
              /\ req[r].body.message \in FetchErrors
              /\ ~Has(r, "write") /\ ~Has(r, "upload")

\* two fetches failed and the third succeeded, and the file was uploaded
C19_Witness ==
  \E r \in Requests :
    /\ variant = "ThumbnailController"
    /\ Len(EventsOf(r, "fetch")) = 3
    /\ HasOk(r, "fetch")
    /\ HasOk(r, "upload")

\* all three fetches failed
C19_WitnessExhausted ==
  \E r \in Requests :
    /\ variant = "ThumbnailController"
    /\ Len(EventsOf(r, "fetch")) = 3
    /\ ~HasOk(r, "fetch")
    /\ req[r].status = 500

\* the stored record of request r has the fields given at creation
KeepsCreationValues(r) ==
  LET created == thumbnailData(variant, r, userIdOf(req[r].session), req[r].input)
  IN /\ store[r].userId = created.userId
     /\ store[r].title = created.title
     /\ store[r].prompt_used = created.prompt_used
     /\ store[r].style = created.style
     /\ store[r].aspect_ratio = created.aspect_ratio
     /\ store[r].color_scheme = created.color_scheme
     /\ store[r].text_overlay = created.text_overlay

\* the writes of the stored record after its creation
WritesAfterCreate(r) == Len(EventsOf(r, "save")) + Len(EventsOf(r, "recover"))
StoredWritesAfterCreate(r) ==
  Len(SelectSeq(trace[r], LAMBDA e : e.op \in {"save", "recover"} /\ e.ok))

\* C20: in part_000, the stored record keeps the userId, title, prompt_used,
\* style, aspect_ratio, color_scheme and text_overlay given at creation on
\* the success and on the failure path, and it is written at most once
\* after creation.
C20_OneWriteKeepsCreationValues ==
  \A r \in Requests :
    (variant = "part_000" /\ store[r]._id # 0) =>
      /\ KeepsCreationValues(r)
      /\ StoredWritesAfterCreate(r) <= 1

\* the half of C20 that holds: the creation values are kept
C20_CreationValuesKept ==
  \A r \in Requests :
    (variant = "part_000" /\ store[r]._id # 0) => KeepsCreationValues(r)

\* a request value that is a non-empty string and no key of the table
UnknownKey(v, keys) == v # Undefined /\ trim(v) # "" /\ trim(v) \notin keys

\* the request composed its prompt: the record was created
Composed(r) == req[r].thumbnail._id # 0

\* C14: for a style key outside the style table the handler does not throw,
\* and the style persisted and used is "Bold & Graphic" with its phrase; for
\* a colour key outside the colour table the colour persisted and used is
\* "vibrant" with its clause.
C14_UnknownKeysFallBack ==
  \A r \in Requests :
    Composed(r) =>
      /\ UnknownKey(req[r].input.style, stylePromptKeys) =>
           /\ req[r].pc = "fetch"
           /\ req[r].thumbnail.style = "Bold & Graphic"
           /\ req[r].prompt[2] = stylePhrase(variant, "Bold & Graphic")
      /\ UnknownKey(req[r].input.color_scheme, colorSchemeKeys) =>
           /\ req[r].pc = "fetch"
           /\ req[r].thumbnail.color_scheme = "vibrant"
           /\ \E k \in 1..Len(req[r].prompt) :
                req[r].prompt[k] = "colorSchemeDescriptions[vibrant]"

\* what the code does with such keys: they are persisted as given, the
\* style phrase is the literal default and the colour clause is left out
C14_UnknownKeysKept ==
  \A r \in Requests :
    Composed(r) =>
      /\ UnknownKey(req[r].input.style, stylePromptKeys) =>
           /\ req[r].pc = "fetch"
           /\ req[r].thumbnail.style = trim(req[r].input.style)
           /\ req[r].prompt[2] \in {"bold thumbnail", "bold graphic thumbnail"}
      /\ UnknownKey(req[r].input.color_scheme, colorSchemeKeys) =>
           /\ req[r].pc = "fetch"
           /\ req[r].thumbnail.color_scheme = trim(req[r].input.color_scheme)
           /\ colorClause(variant, req[r].thumbnail.color_scheme) = <<>>

\* the dimensions the claim gives for an aspect ratio
ClaimedDimensions(aspect) ==
  CASE aspect = "16:9" -> <<1024, 576>>
    [] aspect = "1:1" -> <<1024, 1024>>
    [] aspect = "9:16" -> <<576, 1024>>
    [] aspect = "4:3" -> <<1024, 768>>
    [] OTHER -> <<1024, 576>>

\* C15: in every variant the dimensions are 1024x576 for "16:9", 1024x1024
\* for "1:1", 576x1024 for "9:16", 1024x768 for "4:3", and 1024x576 for
\* every other value, absent and blank included.
C15_Dimensions ==
  \A r \in Requests :
    Composed(r) =>
      req[r].dims = ClaimedDimensions(
                      IF req[r].input.aspect_ratio = Undefined THEN Undefined
                      ELSE trim(req[r].input.aspect_ratio))

\* the same without "4:3": the part every variant agrees on
C15_DimensionsExceptFourThree ==
  \A r \in Requests :
    (Composed(r) /\ req[r].input.aspect_ratio # "4:3") =>
      req[r].dims = ClaimedDimensions(
                      IF req[r].input.aspect_ratio = Undefined THEN Undefined
                      ELSE trim(req[r].input.aspect_ratio))

\* style, colour and aspect ratio are keys of the fixed sets
FromFixedSets(body) ==
  /\ body.style \in stylePromptKeys
  /\ body.color_scheme \in colorSchemeKeys
  /\ body.aspect_ratio \in {"16:9", "1:1", "9:16", "4:3"}

\* C16: for style, colour and aspect ratio from the fixed sets, with or
\* without title and prompt, the composed prompt is not empty, and a
\* non-empty title appears in it verbatim between double quotes, after the
\* style phrase and before the colour description.
C16_PromptQuotesTitle ==
  \A r \in Requests :
    (Composed(r) /\ FromFixedSets(req[r].input)) =>
      LET p == req[r].prompt
          b == req[r].input
      IN /\ p # <<>>
         /\ truthy(b.title) =>
              \E s, k, c \in 1..Len(p) :
                 /\ p[s] = stylePhrase(variant, b.style)
                 /\ p[k] = "\"" /\ p[k + 1] = b.title /\ p[k + 2] = "\""
                 /\ p[c] = "colorSchemeDescriptions[" \o b.color_scheme \o "]"
                 /\ s < k
                 /\ k + 2 < c

\* a prompt was composed from fixed-set keys and a title, without a user
\* prompt
C16_Witness ==
  \E r \in Requests :
    /\ Composed(r)
    /\ req[r].input.title = "Test"
    /\ req[r].input.prompt = Undefined
    /\ req[r].input.style = "Illustrated"
    /\ req[r].input.color_scheme = "ocean"
    /\ req[r].input.aspect_ratio = "9:16"
    /\ Len(req[r].prompt) > 6

\* C21: with two generate requests in flight, every upload of a request
\* reads the bytes that request's own acquisition returned, and no request
\* finds its transient file missing when it unlinks it.
C21_OwnBytesUploaded ==
  \A r \in Requests :
    /\ \A k \in 1..Len(trace[r]) :
         trace[r][k].op = "upload" => trace[r][k].arg = req[r].imageBuffer
    /\ req[r].error # NoFile

\* the same for two requests whose files have different timestamps
C21_OwnBytesWhenTimestampsDiffer ==
  \A r \in Requests :
    (\A o \in Requests \ {r} :
        req[o].filepath # req[r].filepath) =>
      /\ \A k \in 1..Len(trace[r]) :
           trace[r][k].op = "upload" => trace[r][k].arg = req[r].imageBuffer
      /\ req[r].error # NoFile

\* the record of generate request id is stored and that request is between
\* the creation of the record and its response
InFlight(id) ==
  /\ id \in DOMAIN req
  /\ store[id]._id # 0
  /\ req[id].pc \notin {"idle", "done"}

\* C22: while the generate request that created a record is between the
\* creation and its response, a step that changes or removes the stored
\* record is a step of that request.
C22_OnlyCreatorTouchesRecord ==
  [][\A id \in DOMAIN store :
       (InFlight(id) /\ store'[id] # store[id]) => req'[id] # req[id]]_vars

\* a stored record is created and updated only by the steps of its own
\* generate request; every other change is its removal by a delete
C22_OnlyCreatorWritesRecord ==
  [][\A id \in DOMAIN store :
       (store'[id] # store[id] /\ req'[id] = req[id]) =>
          /\ store'[id] = NoRecord
          /\ del'.id = id /\ del'.removed]_vars

\* the last delete request was answered and its session carried no userId
UnauthenticatedDelete == del.status # 0 /\ userIdOf(del.session) = Undefined

\* C24: a delete request whose session carries no userId removes no record
\* and is not answered 200, whatever its id.
C24_UnauthenticatedDeleteRefused ==
  UnauthenticatedDelete => (~del.removed /\ del.status # 200)

\* the half that holds where the filter carries the userId: such a delete
\* removes no record in part_000 and part_001
C24_UnauthenticatedDeleteRemovesNothing ==
  (UnauthenticatedDelete /\ variant # "part_002") => ~del.removed

\* request r of the fallback variant has been received
Started(r) == variant = "part_000" /\ req[r].pc # "idle"

\* request r has sent its response
Answered(r) ==
  /\ req[r].pc = "done"
  /\ req[r].status \in {401, 200, 500}
  /\ Len(EventsOf(r, "respond")) = 1
  /\ trace[r][Len(trace[r])].op = "respond"

\* C23: when every external call returns or fails, every generate request
\* of the fallback variant is eventually answered, with one response of
\* status 401, 200 or 500; it never makes more than 4 provider attempts nor
\* sends more than one response, and once it is answered it makes no call
\* and no write: its response stays its last event and its record is no
\* longer written by it.
C23_AnsweredOnce ==
  /\ \A r \in 1..NumRequests : Started(r) ~> Answered(r)
  /\ [](\A r \in Requests :
          Started(r) =>
            /\ Len(EventsOf(r, "fetch")) <= 4
            /\ Len(EventsOf(r, "respond")) <= 1)
  /\ [][\A r \in Requests :
          (Started(r) /\ req[r].pc = "done") =>
            /\ req'[r] = req[r]
            /\ trace'[r] = trace[r]
            /\ store'[r] \in {store[r], NoRecord}]_vars

\* a request of the fallback variant was answered 200 on its fourth provider
\* attempt
C23_Witness ==
  \E r \in Requests :
    /\ variant = "part_000"
    /\ Len(EventsOf(r, "fetch")) = 4
    /\ req[r].pc = "done"
    /\ req[r].status = 200
====
